---- MODULE Spec2Model ----
(***************************************************************************)
(* FoodNeural: the client-side search / analysis flow of the analyzer      *)
(* view (components/FoodAnalyzer/FoodAnalyzer.jsx and its food-info        *)
(* variant) on top of the HTTP client (services/api.js).                   *)
(*                                                                         *)
(* JavaScript runs the handlers on one event loop: every action below is   *)
(* one handler, or one continuation of an async handler from the response  *)
(* that wakes it up to its next await or its end.                          *)
(***************************************************************************)
EXTENDS Bags, FiniteSets, Integers, Sequences, TLC

VARIABLES
  storesFoodInfo,   \* which analyzer source is running: TRUE = the variant with foodInfo
  query,            \* useState("")    : text of the input
  impactData,       \* useState(null)  : normalized impact or null
  recommendations,  \* useState([])    : alternatives
  foodInfo,         \* useState(null)  : food_info of the recommendations response
  isLoading,        \* useState(false)
  error,            \* useState("")
  suggestions,      \* useState([])
  showSuggestions,  \* useState(false)
  submits,          \* bag of handleSearchWithValue invocations that have not returned
  searches,         \* bag of handleInputChange invocations awaiting searchFoods
  apiCall           \* one call of an api.js function made directly (SpecApi only)

ui == <<query, impactData, recommendations, foodInfo, isLoading, error,
        suggestions, showSuggestions>>
vars == <<storesFoodInfo, query, impactData, recommendations, foodInfo, isLoading,
          error, suggestions, showSuggestions, submits, searches, apiCall>>

----------------------------------------------------------------------------
(* Bounds of the model. *)

\* HTTP requests that may be outstanding at the same time, under Spec
MaxInFlight == 2
\* HTTP requests that may be outstanding at the same time, under SpecRace
MaxRaceInFlight == 4

----------------------------------------------------------------------------
(* JavaScript values.  A string is a sequence of characters; a JSON value  *)
(* of a payload field is tagged with its typeof.                           *)

Blank == " "
Str0 == <<>>
StrSp == <<Blank>>
StrAB == <<"a", "b">>
\* the values typed, suggested or recommended
Strs == {Str0, StrSp, StrAB}

RECURSIVE TrimLeft(_)
TrimLeft(s) == IF s # <<>> /\ Head(s) = Blank THEN TrimLeft(Tail(s)) ELSE s

RECURSIVE TrimRight(_)
TrimRight(s) ==
  IF s # <<>> /\ s[Len(s)] = Blank THEN TrimRight(SubSeq(s, 1, Len(s) - 1)) ELSE s

\* String.prototype.trim
Trim(s) == TrimRight(TrimLeft(s))

Undefined == [t |-> "undefined", v |-> 0]
Num(n) == [t |-> "number", v |-> n]
Text(n) == [t |-> "string", v |-> n]
EmptyArray == [t |-> "array", v |-> 0]
ZeroNutrition == [t |-> "nutrition", v |-> 0]

\* typeof x
TypeOf(x) == x.t

\* ToBoolean(x), as in  x || y  and  if (x)
Truthy(x) ==
  CASE x.t = "undefined" -> FALSE
    [] x.t = "number" -> x.v # 0
    [] x.t = "string" -> x.v # 0
    [] OTHER -> TRUE

NoBreakdown ==
  [present |-> FALSE, carbon |-> Undefined, water |-> Undefined, energy |-> Undefined,
   waste |-> Undefined, deforestation |-> Undefined]

\* null, as a value of the shape of the objects below
NullObj ==
  [kind |-> "null", food |-> Undefined, carbon |-> Undefined, water |-> Undefined,
   energy |-> Undefined, waste |-> Undefined, deforestation |-> Undefined,
   environmental_score |-> Undefined, impact |-> Undefined, score |-> Undefined,
   breakdown |-> NoBreakdown, ingredients |-> Undefined, certifications |-> Undefined,
   nutrition |-> Undefined]

EmptyObj == [NullObj EXCEPT !.kind = "object"]

\* {food, carbon, water, energy, waste, deforestation, impact, environmental_score}
FlatBeef ==
  [EmptyObj EXCEPT !.food = Text(1), !.carbon = Num(27), !.water = Num(15400),
                   !.energy = Num(42), !.waste = Num(3), !.deforestation = Num(1),
                   !.impact = Text(2), !.environmental_score = Num(8)]

\* {food, score, impact, breakdown: {carbon, water, energy, waste, deforestation}}
NestedBeef ==
  [EmptyObj EXCEPT !.food = Text(1), !.score = Num(8), !.impact = Text(2),
                   !.breakdown = [present |-> TRUE, carbon |-> Num(27),
                                  water |-> Num(15400), energy |-> Num(42),
                                  waste |-> Num(3), deforestation |-> Num(1)]]

\* a flat payload whose water is the string "15400"
FlatBadWater == [FlatBeef EXCEPT !.water = Text(3)]

\* the bodies a 2xx response of GET /impact/{food} carries in the model
ImpactPayloads == {NullObj, FlatBeef, NestedBeef, FlatBadWater}

----------------------------------------------------------------------------
(* FoodAnalyzer.jsx: validation and normalization of the impact payload.   *)

\* a validation that does not look at deforestation
validateImpactDataMutantNoDeforestation(data) ==
  IF data.kind # "object" THEN FALSE
  ELSE IF data.breakdown.present
       THEN /\ TypeOf(data.food) = "string"
            /\ TypeOf(data.breakdown.carbon) = "number"
            /\ TypeOf(data.breakdown.water) = "number"
            /\ TypeOf(data.breakdown.energy) = "number"
            /\ TypeOf(data.breakdown.waste) = "number"
       ELSE /\ TypeOf(data.food) = "string"
            /\ TypeOf(data.carbon) = "number"
            /\ TypeOf(data.water) = "number"
            /\ TypeOf(data.energy) = "number"
            /\ TypeOf(data.waste) = "number"

validateImpactData(data) ==
  IF data.kind # "object" THEN FALSE
  ELSE IF data.breakdown.present
       THEN /\ TypeOf(data.food) = "string"
            /\ TypeOf(data.breakdown.carbon) = "number"
            /\ TypeOf(data.breakdown.water) = "number"
            /\ TypeOf(data.breakdown.energy) = "number"
            /\ TypeOf(data.breakdown.waste) = "number"
            /\ TypeOf(data.breakdown.deforestation) = "number"
       ELSE /\ TypeOf(data.food) = "string"
            /\ TypeOf(data.carbon) = "number"
            /\ TypeOf(data.water) = "number"
            /\ TypeOf(data.energy) = "number"
            /\ TypeOf(data.waste) = "number"
            /\ TypeOf(data.deforestation) = "number"

normalizeImpactData(data) ==
  IF data.kind = "null" THEN NullObj
  ELSE IF data.breakdown.present THEN data
  ELSE [EmptyObj EXCEPT
          !.food = data.food,
          !.score = IF Truthy(data.environmental_score)
                    THEN data.environmental_score ELSE Num(5),
          !.breakdown = [present |-> TRUE, carbon |-> data.carbon, water |-> data.water,
                         energy |-> data.energy, waste |-> data.waste,
                         deforestation |-> data.deforestation],
          !.impact = data.impact,
          !.ingredients = EmptyArray,
          !.certifications = EmptyArray,
          !.nutrition = ZeroNutrition]

----------------------------------------------------------------------------
(* The HTTP exchange as axios reports it.  code/status are the fields of   *)
(* the AxiosError api.js reads; status 0 stands for "no response".         *)

HttpOk == [code |-> "OK", status |-> 200]
HttpTimeout == [code |-> "ECONNABORTED", status |-> 0]
HttpNetworkError == [code |-> "ERR_NETWORK", status |-> 0]
HttpNotFound == [code |-> "ERR_BAD_REQUEST", status |-> 404]
HttpServerError == [code |-> "ERR_BAD_RESPONSE", status |-> 500]
HttpFailures == {HttpTimeout, HttpNetworkError, HttpNotFound, HttpServerError}

\* error.message of the AxiosError
AxiosMessage(o) ==
  CASE o.code = "ECONNABORTED" -> "timeout exceeded"
    [] o.code = "ERR_NETWORK" -> "Network Error"
    [] OTHER -> "Request failed with status code"

\* bodies of GET /recommendations/{food}
NoList == [present |-> FALSE, items |-> <<>>]
NoInfo == [present |-> FALSE, name |-> Str0]
NullBody == [isNull |-> TRUE, alternatives |-> NoList, food_info |-> NoInfo]
\* {}
BodyNone == [isNull |-> FALSE, alternatives |-> NoList, food_info |-> NoInfo]
\* {alternatives: [{name: "ab"}, {name: " "}]}
BodyAlts ==
  [isNull |-> FALSE,
   alternatives |-> [present |-> TRUE, items |-> <<[name |-> StrAB], [name |-> StrSp]>>],
   food_info |-> NoInfo]
\* {alternatives: [{name: "ab"}, {name: " "}], food_info: {name: "ab"}}
BodyInfo == [BodyAlts EXCEPT !.food_info = [present |-> TRUE, name |-> StrAB]]
RecBodies == {BodyNone, BodyAlts, BodyInfo}
\* {alternatives: [{name: "ab"}]}
BodyOne ==
  [isNull |-> FALSE,
   alternatives |-> [present |-> TRUE, items |-> <<[name |-> StrAB]>>],
   food_info |-> NoInfo]

\* bodies of GET /search: an array of strings, or some other JSON value
NoSearchBody == [isArray |-> FALSE, items |-> <<>>]
\* ["ab", " "]
SuggestBody == [isArray |-> TRUE, items |-> <<StrAB, StrSp>>]
\* ["ab"]
OneSuggestion == [isArray |-> TRUE, items |-> <<StrAB>>]
\* {"results": ["ab"]}
NotAList == [isArray |-> FALSE, items |-> <<StrAB>>]
SearchBodies == {[isArray |-> TRUE, items |-> <<>>], SuggestBody, NotAList}

\* the responses with a body of `bodies` or a failure of `fails`; nobody is the
\* data field of a failure, which has no body
Responses(bodies, fails, nobody) ==
  {[o |-> HttpOk, data |-> b] : b \in bodies}
    \cup {[o |-> f, data |-> nobody] : f \in fails}

----------------------------------------------------------------------------
(* api.js: getRecommendations, as the state of one call.                   *)
(*   stage: "idle" not called, "first"/"fallback" awaiting that request,   *)
(*          "ok" resolved with data, "err" rejected                        *)
(*   sent : the use_ai parameter of each request issued, in order          *)

IdleCall ==
  [stage |-> "idle", useAI |-> TRUE, sent |-> <<>>, data |-> NullBody]

\* the call up to its first await
getRecommendations(useAI) ==
  [stage |-> "first", useAI |-> useAI, sent |-> <<useAI>>, data |-> NullBody]

\* a retry on server errors alone
RetryMutantStatusOnly(o) == o.status >= 500

\* error.code === "ECONNABORTED" || error.response?.status >= 500
Retryable(o) == o.code = "ECONNABORTED" \/ o.status >= 500

\* the fallback request: {...params, use_ai: "false"}
Fallback(c) == [c EXCEPT !.stage = "fallback", !.sent = Append(@, FALSE)]

\* the continuation of the call on the response r of its outstanding request
RecCallStep(c, r) ==
  IF r.o = HttpOk
  THEN [c EXCEPT !.stage = "ok", !.data = r.data]
  ELSE IF c.stage = "first" /\ Retryable(r.o) /\ c.useAI = TRUE
       THEN Fallback(c)
       ELSE [c EXCEPT !.stage = "err"]

Pending(c) == c.stage \in {"first", "fallback"}

\* recommendationsResult.alternatives || []
Alternatives(body) ==
  IF body.alternatives.present THEN body.alternatives.items ELSE <<>>

\* []
EmptyList == [isArray |-> TRUE, items |-> <<>>]

\* an earlier searchFoods of api.js: return response.data, unchecked
searchFoodsMutantNoArrayCheck(r) ==
  IF r.o = HttpOk
  THEN [threw |-> FALSE, value |-> r.data]
  ELSE [threw |-> FALSE, value |-> EmptyList]

\* api.js: searchFoods, from the response r of its request to its completion:
\* threw tells a rejected promise from a returned value
searchFoods(r) ==
  IF r.o = HttpOk
  THEN [threw |-> FALSE, value |-> IF r.data.isArray THEN r.data ELSE EmptyList]
  ELSE [threw |-> FALSE, value |-> EmptyList]

\* api.js: getFoodImpact, from the response r of its request to its completion
getFoodImpact(r) ==
  IF r.o = HttpOk
  THEN [threw |-> FALSE, value |-> r.data]
  ELSE [threw |-> TRUE, value |-> NullObj]

----------------------------------------------------------------------------
(* FoodAnalyzer.jsx: the component.                                        *)

EmptyQueryMsg == "Please enter a food name (e.g., Almond Milk, Beef)"
ShapeMsg == "Unable to analyze this food item's impact data."
GenericMsg == "An error occurred while fetching data. Please try again."
InvalidFormatMsg == "Invalid impact data format"
TypeErrorMsg == "Cannot read properties of null (reading 'alternatives')"

(* One invocation of handleSearchWithValue past its first await:           *)
(*   pc  : "all" awaiting Promise.all, "catch" awaiting the getRecommenda- *)
(*         tions of the catch block, "done" returned (requests of its      *)
(*         Promise.all may still be outstanding; their results are dropped)*)
(*   imp : the getFoodImpact call: "pending", "ok" (impData), "err"        *)
(*   rec : the getRecommendations call of the Promise.all                  *)
(*   rec2: the getRecommendations call of the catch block                  *)
NoSubmit ==
  [value |-> Str0, pc |-> "none", imp |-> "none", impData |-> NullObj,
   rec |-> IdleCall, rec2 |-> IdleCall]

\* the HTTP requests outstanding
InFlight ==
  LET Of(s) == (IF s.imp = "pending" THEN 1 ELSE 0) + (IF Pending(s.rec) THEN 1 ELSE 0)
                 + (IF Pending(s.rec2) THEN 1 ELSE 0)
      RECURSIVE Sum(_)
      Sum(S) == IF S = {} THEN 0
                ELSE LET s == CHOOSE x \in S : TRUE
                     IN Of(s) * CopiesIn(s, submits) + Sum(S \ {s})
  IN Sum(BagToSet(submits)) + BagCardinality(searches)

One(x) == SetToBag({x})

Replace(s, s2) == (submits (-) One(s)) (+) One(s2)

\* the invocation s once returned: kept, without the results nobody reads any
\* more, while requests of its Promise.all are outstanding
Retired(s) ==
  LET d == [NoSubmit EXCEPT !.pc = "done", !.imp = s.imp,
                            !.rec = [IdleCall EXCEPT !.stage = s.rec.stage,
                                                     !.useAI = s.rec.useAI]]
  IN IF d.imp = "pending" \/ Pending(d.rec) THEN One(d) ELSE EmptyBag

\* a direct call of an api.js function:
\*   fn : the function, arg: its first argument, rc: the getRecommendations call
\*   got: the responses received, in order
\*   ret: the completion of searchFoods / getFoodImpact
NoCall ==
  [fn |-> "none", arg |-> Str0, rc |-> IdleCall, got |-> <<>>, settled |-> TRUE,
   ret |-> [threw |-> FALSE, value |-> EmptyList]]

Init ==
  /\ storesFoodInfo \in BOOLEAN
  /\ query = Str0
  /\ impactData = NullObj
  /\ recommendations = <<>>
  /\ foodInfo = NoInfo
  /\ isLoading = FALSE
  /\ error = ""
  /\ suggestions = <<>>
  /\ showSuggestions = FALSE
  /\ submits = EmptyBag
  /\ searches = EmptyBag
  /\ apiCall = NoCall

\* lines 25-28: the early return on a query that trims to nothing.
\* sg, sh: suggestions and showSuggestions as the caller leaves them.
RejectEmpty(sg, sh) ==
  /\ error' = EmptyQueryMsg
  /\ suggestions' = sg
  /\ showSuggestions' = sh
  /\ UNCHANGED <<impactData, recommendations, foodInfo, isLoading, submits>>

\* a sequential dispatch: the recommendations request waits for the impact
StartAnalysisMutantSequential(value) ==
  /\ showSuggestions' = FALSE
  /\ suggestions' = <<>>
  /\ isLoading' = TRUE
  /\ error' = ""
  /\ impactData' = NullObj
  /\ foodInfo' = NoInfo
  /\ recommendations' = IF storesFoodInfo THEN <<>> ELSE recommendations
  /\ submits' = submits (+) One([NoSubmit EXCEPT !.value = value, !.pc = "all",
                                                 !.imp = "pending"])

\* lines 30-40: the resets and the two calls of the Promise.all
StartAnalysis(value) ==
  /\ showSuggestions' = FALSE
  /\ suggestions' = <<>>
  /\ isLoading' = TRUE
  /\ error' = ""
  /\ impactData' = NullObj
  /\ foodInfo' = NoInfo
  /\ recommendations' = IF storesFoodInfo THEN <<>> ELSE recommendations
  /\ submits' = submits (+) One([NoSubmit EXCEPT !.value = value, !.pc = "all",
                                                 !.imp = "pending",
                                                 !.rec = getRecommendations(TRUE)])

\* the test  if (!value)  in place of  if (!value.trim())
handleSearchWithValueMutantNoTrim(value, sg, sh) ==
  IF value = <<>> THEN RejectEmpty(sg, sh) ELSE StartAnalysis(value)

\* handleSearchWithValue up to its first await
handleSearchWithValue(value, sg, sh) ==
  IF Trim(value) = <<>> THEN RejectEmpty(sg, sh) ELSE StartAnalysis(value)

\* the Analyze button and Enter in the input, both disabled while loading
HandleSearch ==
  /\ ~isLoading
  /\ handleSearchWithValue(query, suggestions, showSuggestions)
  /\ UNCHANGED <<storesFoodInfo, query, searches, apiCall>>

\* a selectSuggestion that submits the query of the last render
SelectSuggestionMutantStaleQuery(i) ==
  /\ showSuggestions
  /\ i \in 1..Len(suggestions)
  /\ query' = suggestions[i]
  /\ handleSearchWithValue(query, <<>>, FALSE)
  /\ UNCHANGED <<storesFoodInfo, searches, apiCall>>

\* a click on item i of the suggestion list, rendered when it is shown and not empty
SelectSuggestion(i) ==
  /\ showSuggestions
  /\ i \in 1..Len(suggestions)
  /\ query' = suggestions[i]
  /\ handleSearchWithValue(suggestions[i], <<>>, FALSE)
  /\ UNCHANGED <<storesFoodInfo, searches, apiCall>>

\* a handleSelectRecommendation that submits the query of the last render
HandleSelectRecommendationMutantStaleQuery(i) ==
  /\ i \in 1..Len(recommendations)
  /\ query' = recommendations[i].name
  /\ handleSearchWithValue(query, suggestions, showSuggestions)
  /\ UNCHANGED <<storesFoodInfo, searches, apiCall>>

\* a click on item i of RecommendationsList, rendered when the list is not empty
HandleSelectRecommendation(i) ==
  /\ i \in 1..Len(recommendations)
  /\ query' = recommendations[i].name
  /\ handleSearchWithValue(recommendations[i].name, suggestions, showSuggestions)
  /\ UNCHANGED <<storesFoodInfo, searches, apiCall>>

\* a handleInputChange that measures the value as typed, not trimmed
HandleInputChangeMutantNoTrim(value) ==
  /\ ~isLoading
  /\ query' = value
  /\ error' = ""
  /\ IF ~isLoading /\ Len(value) > 1
     THEN /\ searches' = searches (+) One([q |-> value])
          /\ UNCHANGED <<suggestions, showSuggestions>>
     ELSE /\ suggestions' = <<>>
          /\ showSuggestions' = FALSE
          /\ UNCHANGED searches
  /\ UNCHANGED <<storesFoodInfo, impactData, recommendations, foodInfo, isLoading,
                 submits, apiCall>>

\* onChange of the input (disabled while loading), up to the await of searchFoods
HandleInputChange(value) ==
  /\ ~isLoading
  /\ query' = value
  /\ error' = ""
  /\ IF ~isLoading /\ Len(Trim(value)) > 1
     THEN /\ searches' = searches (+) One([q |-> value])
          /\ UNCHANGED <<suggestions, showSuggestions>>
     ELSE /\ suggestions' = <<>>
          /\ showSuggestions' = FALSE
          /\ UNCHANGED searches
  /\ UNCHANGED <<storesFoodInfo, impactData, recommendations, foodInfo, isLoading,
                 submits, apiCall>>

\* the clear button, rendered when query is not empty and not loading
HandleClearSearch ==
  /\ query # Str0
  /\ ~isLoading
  /\ query' = Str0
  /\ impactData' = NullObj
  /\ recommendations' = <<>>
  /\ foodInfo' = NoInfo
  /\ error' = ""
  /\ suggestions' = <<>>
  /\ showSuggestions' = FALSE
  /\ UNCHANGED <<storesFoodInfo, isLoading, submits, searches, apiCall>>

\* mousedown outside the input and the rendered suggestion list
HandleClickOutside ==
  /\ showSuggestions
  /\ suggestions # <<>>
  /\ showSuggestions' = FALSE
  /\ UNCHANGED <<storesFoodInfo, query, impactData, recommendations, foodInfo,
                 isLoading, error, suggestions, submits, searches, apiCall>>

\* a continuation that adds the results to the list on display
SearchResponseMutantMerge(s, r) ==
  /\ s \in BagToSet(searches)
  /\ searches' = searches (-) One(s)
  /\ suggestions' = suggestions \o searchFoods(r).value.items
  /\ showSuggestions' = TRUE
  /\ UNCHANGED <<storesFoodInfo, query, impactData, recommendations, foodInfo,
                 isLoading, error, submits, apiCall>>

\* handleInputChange after its await: the response r of its search request
SearchResponse(s, r) ==
  /\ s \in BagToSet(searches)
  /\ searches' = searches (-) One(s)
  /\ suggestions' = searchFoods(r).value.items
  /\ showSuggestions' = TRUE
  /\ UNCHANGED <<storesFoodInfo, query, impactData, recommendations, foodInfo,
                 isLoading, error, submits, apiCall>>

\* a catch block that tells every failure the same way
CatchMutantOneMessage(s, s2, msg) ==
  /\ error' = GenericMsg
  /\ impactData' = NullObj
  /\ submits' = Replace(s, [s2 EXCEPT !.pc = "catch",
                                      !.rec2 = getRecommendations(TRUE)])
  /\ UNCHANGED <<query, recommendations, foodInfo, isLoading, suggestions,
                 showSuggestions>>

\* lines 52-63: the catch block up to its await; msg is err.message
Catch(s, s2, msg) ==
  /\ error' = IF msg = InvalidFormatMsg THEN ShapeMsg ELSE GenericMsg
  /\ impactData' = NullObj
  /\ submits' = Replace(s, [s2 EXCEPT !.pc = "catch",
                                      !.rec2 = getRecommendations(TRUE)])
  /\ UNCHANGED <<query, recommendations, foodInfo, isLoading, suggestions,
                 showSuggestions>>

\* storing food_info of a recommendations result (the foodInfo variant only)
StoreFoodInfo(body) ==
  IF storesFoodInfo /\ ~body.isNull /\ body.food_info.present
  THEN /\ foodInfo' = body.food_info
       /\ query' = IF body.food_info.name # Str0 THEN body.food_info.name ELSE query
  ELSE UNCHANGED <<foodInfo, query>>

\* the success path without the finally: loading is never left
ThenMutantNoFinally(s, s2) ==
  LET data == s2.impData
      body == s2.rec.data
  IN IF data.kind = "null" \/ ~validateImpactData(data)
     THEN Catch(s, s2, InvalidFormatMsg)
     ELSE IF ~storesFoodInfo /\ body.isNull
          THEN Catch(s, s2, TypeErrorMsg)
          ELSE /\ impactData' = normalizeImpactData(data)
               /\ recommendations' =
                    IF body.isNull THEN recommendations ELSE Alternatives(body)
               /\ StoreFoodInfo(body)
               /\ submits' = submits (-) One(s)
               /\ UNCHANGED <<isLoading, error, suggestions, showSuggestions>>

\* lines 42-51 and the finally: both calls of the Promise.all resolved
Then(s, s2) ==
  LET data == s2.impData
      body == s2.rec.data
  IN IF data.kind = "null" \/ ~validateImpactData(data)
     THEN Catch(s, s2, InvalidFormatMsg)
     ELSE IF ~storesFoodInfo /\ body.isNull
          THEN Catch(s, s2, TypeErrorMsg)
          ELSE /\ impactData' = normalizeImpactData(data)
               /\ recommendations' =
                    IF body.isNull THEN recommendations ELSE Alternatives(body)
               /\ StoreFoodInfo(body)
               /\ isLoading' = FALSE
               /\ submits' = submits (-) One(s)
               /\ UNCHANGED <<error, suggestions, showSuggestions>>

\* a call of the Promise.all settled or moved on: s2 is s with that call updated
AfterCall(s, s2, msg) ==
  CASE s.pc = "all" /\ (s2.imp = "err" \/ s2.rec.stage = "err") -> Catch(s, s2, msg)
    [] s.pc = "all" /\ s2.imp = "ok" /\ s2.rec.stage = "ok" -> Then(s, s2)
    [] s.pc = "done" ->
         /\ submits' = (submits (-) One(s)) (+) Retired(s2)
         /\ UNCHANGED ui
    [] OTHER ->
         /\ submits' = Replace(s, s2)
         /\ UNCHANGED ui

\* the response r as invocation s keeps it: past the Promise.all nobody reads the body
Kept(s, r) == IF s.pc = "all" THEN r ELSE [r EXCEPT !.data = NullBody]

\* the response r of the impact request of invocation s
ImpactResponse(s, r) ==
  /\ s \in BagToSet(submits)
  /\ s.imp = "pending"
  /\ LET ret == getFoodImpact(r)
     IN AfterCall(s, [s EXCEPT !.imp = IF ret.threw THEN "err" ELSE "ok",
                               !.impData = IF s.pc = "all" THEN ret.value ELSE NullObj],
                  AxiosMessage(r.o))
  /\ UNCHANGED <<storesFoodInfo, searches, apiCall>>

\* the response r of the outstanding request of the Promise.all's getRecommendations
RecResponse(s, r) ==
  /\ s \in BagToSet(submits)
  /\ Pending(s.rec)
  /\ AfterCall(s, [s EXCEPT !.rec = RecCallStep(s.rec, Kept(s, r))], AxiosMessage(r.o))
  /\ UNCHANGED <<storesFoodInfo, searches, apiCall>>

\* lines 62-71: the response r of the outstanding request of the catch block's
\* getRecommendations; when the call settles, the rest of the handler
Rec2Response(s, r) ==
  /\ s \in BagToSet(submits)
  /\ s.pc = "catch"
  /\ Pending(s.rec2)
  /\ LET c == RecCallStep(s.rec2, r)
     IN IF Pending(c)
        THEN /\ submits' = Replace(s, [s EXCEPT !.rec2 = c])
             /\ UNCHANGED ui
        ELSE /\ IF c.stage = "ok" /\ ~c.data.isNull
                THEN /\ recommendations' = Alternatives(c.data)
                     /\ StoreFoodInfo(c.data)
                ELSE /\ recommendations' = <<>>
                     /\ UNCHANGED <<foodInfo, query>>
             /\ isLoading' = FALSE
             /\ submits' = (submits (-) One(s)) (+) Retired(s)
             /\ UNCHANGED <<impactData, error, suggestions, showSuggestions>>
  /\ UNCHANGED <<storesFoodInfo, searches, apiCall>>

----------------------------------------------------------------------------
(* The analyzer in the browser: the user's events and the server's         *)
(* responses, in any order.                                                 *)

Next ==
  \/ HandleSearch /\ InFlight' <= MaxInFlight
  \/ \E i \in 1..2 : SelectSuggestion(i) /\ InFlight' <= MaxInFlight
  \/ \E i \in 1..2 : HandleSelectRecommendation(i) /\ InFlight' <= MaxInFlight
  \/ \E value \in Strs : HandleInputChange(value) /\ InFlight' <= MaxInFlight
  \/ HandleClearSearch
  \/ HandleClickOutside
  \/ \E s \in BagToSet(searches), r \in Responses(SearchBodies, HttpFailures, NoSearchBody) :
       SearchResponse(s, r)
  \/ \E s \in BagToSet(submits), r \in Responses(ImpactPayloads, HttpFailures, NullObj) :
       ImpactResponse(s, r)
  \/ \E s \in BagToSet(submits), r \in Responses(RecBodies, HttpFailures, NullBody) :
       RecResponse(s, r)
  \/ \E s \in BagToSet(submits), r \in Responses(RecBodies, HttpFailures, NullBody) :
       Rec2Response(s, r)

Spec == Init /\ [][Next]_vars

\* the same, on few inputs, with room for two invocations of handleSearchWithValue
\* at once
NextRace ==
  \/ HandleSearch /\ InFlight' <= MaxRaceInFlight
  \/ \E i \in 1..2 : SelectSuggestion(i) /\ InFlight' <= MaxRaceInFlight
  \/ \E i \in 1..2 : HandleSelectRecommendation(i) /\ InFlight' <= MaxRaceInFlight
  \/ HandleInputChange(StrAB) /\ InFlight' <= MaxRaceInFlight
  \/ HandleClearSearch
  \/ HandleClickOutside
  \/ \E s \in BagToSet(searches), r \in Responses({OneSuggestion}, {HttpTimeout}, NoSearchBody) :
       SearchResponse(s, r)
  \/ \E s \in BagToSet(submits), r \in Responses({FlatBeef}, {HttpTimeout}, NullObj) :
       ImpactResponse(s, r)
  \/ \E s \in BagToSet(submits), r \in Responses({BodyOne}, {HttpTimeout}, NullBody) :
       RecResponse(s, r)
  \/ \E s \in BagToSet(submits), r \in Responses({BodyOne}, {HttpTimeout}, NullBody) :
       Rec2Response(s, r)

SpecRace == Init /\ [][NextRace]_vars

----------------------------------------------------------------------------
(* api.js on its own: one function called at a time, its requests answered *)
(* by the server.                                                           *)

CallGetRecommendations(foodName, useAI) ==
  /\ apiCall.settled
  /\ apiCall' = [NoCall EXCEPT !.fn = "getRecommendations", !.arg = foodName,
                               !.rc = getRecommendations(useAI), !.settled = FALSE]
  /\ UNCHANGED <<storesFoodInfo, ui, submits, searches>>

\* the response r of the outstanding request of the call
RecommendationsResponse(r) ==
  /\ apiCall.fn = "getRecommendations"
  /\ Pending(apiCall.rc)
  /\ LET c == RecCallStep(apiCall.rc, r)
     IN apiCall' = [apiCall EXCEPT !.rc = c, !.got = Append(@, r),
                                   !.settled = ~Pending(c)]
  /\ UNCHANGED <<storesFoodInfo, ui, submits, searches>>

CallSearchFoods(q) ==
  /\ apiCall.settled
  /\ apiCall' = [NoCall EXCEPT !.fn = "searchFoods", !.arg = q, !.settled = FALSE]
  /\ UNCHANGED <<storesFoodInfo, ui, submits, searches>>

SearchFoodsResponse(r) ==
  /\ apiCall.fn = "searchFoods"
  /\ ~apiCall.settled
  /\ apiCall' = [apiCall EXCEPT !.ret = searchFoods(r), !.got = Append(@, r),
                                !.settled = TRUE]
  /\ UNCHANGED <<storesFoodInfo, ui, submits, searches>>

NextApi ==
  \/ \E foodName \in Strs, useAI \in BOOLEAN : CallGetRecommendations(foodName, useAI)
  \/ \E r \in Responses(RecBodies, HttpFailures, NullBody) : RecommendationsResponse(r)
  \/ \E q \in Strs : CallSearchFoods(q)
  \/ \E r \in Responses(SearchBodies, HttpFailures, NoSearchBody) : SearchFoodsResponse(r)

SpecApi == Init /\ [][NextApi]_vars

----------------------------------------------------------------------------
(* Properties of api.js, under SpecApi.                                     *)

\* a timeout, or a response with a 5xx status
TimeoutOr5xx(o) == o.code = "ECONNABORTED" \/ o.status \in 500..599

\* C2: one call of getRecommendations(food, useAI) issues a second request if
\* and only if its first attempt failed with a timeout or a 5xx status and useAI
\* is true; the second request carries use_ai=false; there is never a third;
\* with useAI false, or any other failure, exactly one request is issued.
C2_RetryOnceWithoutAI ==
  apiCall.fn = "getRecommendations" =>
    LET c == apiCall.rc
        issued == Len(c.sent)
    IN /\ issued \in 1..2
       /\ c.sent[1] = c.useAI
       /\ apiCall.got = <<>> => issued = 1
       /\ apiCall.got # <<>> =>
            (issued = 2 <=> (TimeoutOr5xx(apiCall.got[1].o) /\ c.useAI = TRUE))
       /\ issued = 2 => c.sent[2] = FALSE
       /\ apiCall.settled => Len(apiCall.got) = issued

\* a call whose first attempt timed out and whose fallback failed too: it has
\* settled, after two requests
C2_Witness ==
  /\ apiCall.fn = "getRecommendations"
  /\ apiCall.settled
  /\ Len(apiCall.rc.sent) = 2
  /\ apiCall.got[1].o = HttpTimeout
  /\ apiCall.got[2].o = HttpServerError
  /\ apiCall.rc.stage = "err"

\* C4: searchFoods never fails to its caller: on a timeout, a network error, a
\* non-2xx status or a body that is not an array it resolves with the empty
\* array, and otherwise with the array of the response.
C4_SearchFoodsNeverFails ==
  (apiCall.fn = "searchFoods" /\ apiCall.settled) =>
    LET r == apiCall.got[1]
    IN /\ ~apiCall.ret.threw
       /\ apiCall.ret.value.isArray
       /\ apiCall.ret.value.items =
            IF r.o = HttpOk /\ r.data.isArray THEN r.data.items ELSE <<>>

\* a search answered 200 with a body that is not an array, resolved with []
C4_Witness ==
  /\ apiCall.fn = "searchFoods"
  /\ apiCall.settled
  /\ apiCall.got[1] = [o |-> HttpOk, data |-> NotAList]
  /\ apiCall.ret = [threw |-> FALSE, value |-> EmptyList]

----------------------------------------------------------------------------
(* Properties of the analyzer.  A property of the step that ends a submit   *)
(* is stated over that step: s is the invocation before the step, r the     *)
(* response the step consumes, and the primed variables are what the user   *)
(* sees once the submit has completed.                                      *)

\* a submit of a query that trims to nothing, by any of its four ways
BlankSubmit ==
  \/ HandleSearch /\ Trim(query) = <<>>
  \/ \E i \in 1..Len(suggestions) :
       SelectSuggestion(i) /\ Trim(suggestions[i]) = <<>>
  \/ \E i \in 1..Len(recommendations) :
       HandleSelectRecommendation(i) /\ Trim(recommendations[i].name) = <<>>

\* C1: submitting a query that is empty or only whitespace (Analyze, Enter, a
\* suggestion, a recommendation) issues no request, sets the error message to
\* "Please enter a food name (e.g., Almond Milk, Beef)", does not enter loading,
\* and leaves impact, alternatives and the loading flag unchanged.
C1_BlankSubmitRejected ==
  [][BlankSubmit =>
       /\ error' = "Please enter a food name (e.g., Almond Milk, Beef)"
       /\ InFlight' = InFlight
       /\ submits' = submits
       /\ searches' = searches
       /\ impactData' = impactData
       /\ recommendations' = recommendations
       /\ isLoading' = isLoading]_vars

\* the recommendation named " " was selected while an analysis was on display:
\* the message is shown and the analysis is still there
C1_Witness ==
  /\ error = EmptyQueryMsg
  /\ query = StrSp
  /\ impactData # NullObj
  /\ recommendations # <<>>
  /\ ~isLoading

\* C3: when the first recommendations attempt of a submit timed out or got a
\* 5xx and the retry succeeds, then with a valid impact response the submit
\* ends with an empty error message and the retry's alternatives stored.
C3_RetrySuccessShowsNoError ==
  [][\A s \in BagToSet(submits) :
       /\ \A r \in Responses(RecBodies, {}, NullBody) :
            ( /\ RecResponse(s, r)
              /\ s.pc = "all"
              /\ s.rec.stage = "fallback"
              /\ s.imp = "ok"
              /\ validateImpactData(s.impData) )
            => (error' = "" /\ recommendations' = Alternatives(r.data))
       /\ \A r \in Responses(ImpactPayloads, {}, NullObj) :
            ( /\ ImpactResponse(s, r)
              /\ s.pc = "all"
              /\ s.rec.stage = "ok"
              /\ Len(s.rec.sent) = 2
              /\ validateImpactData(r.data) )
            => (error' = "" /\ recommendations' = Alternatives(s.rec.data))]_vars

\* C5: a submit whose impact fetch failed and whose recommendations fetch,
\* dispatched in parallel with it, succeeded with at least one alternative
\* completes with impact null and at least one alternative in the list.
C5_PartialFailureKeepsAlternatives ==
  [][\A s \in BagToSet(submits), r \in Responses(RecBodies, HttpFailures, NullBody) :
       ( /\ Rec2Response(s, r)
         /\ ~Pending(RecCallStep(s.rec2, r))
         /\ s.imp = "err"
         /\ s.rec.stage = "ok"
         /\ Len(Alternatives(s.rec.data)) >= 1 )
       => (impactData' = NullObj /\ Len(recommendations') >= 1)]_vars

\* C6: a submit whose impact fetch succeeded with a valid payload and whose
\* recommendations fetch alone failed (after its retry policy) completes with an
\* empty error message, an empty alternatives list and the normalized impact
\* stored.
C6_RecommendationFailureIsSilent ==
  [][\A s \in BagToSet(submits), r \in Responses(RecBodies, HttpFailures, NullBody) :
       ( /\ Rec2Response(s, r)
         /\ ~Pending(RecCallStep(s.rec2, r))
         /\ s.imp = "ok"
         /\ validateImpactData(s.impData)
         /\ s.rec.stage = "err" )
       => /\ error' = ""
          /\ recommendations' = <<>>
          /\ impactData' = normalizeImpactData(s.impData)]_vars

\* C7: a submit whose impact fetch failed and whose every recommendations fetch
\* failed completes with impact null, the alternatives list empty and a
\* non-empty error message.
C7_BothFailIsFailure ==
  [][\A s \in BagToSet(submits), r \in Responses({}, HttpFailures, NullBody) :
       ( /\ Rec2Response(s, r)
         /\ ~Pending(RecCallStep(s.rec2, r))
         /\ s.imp = "err"
         /\ s.rec.stage = "err" )
       => /\ impactData' = NullObj
          /\ recommendations' = <<>>
          /\ error' # ""]_vars

\* C8: the message a failed submit sets is "Unable to analyze this food item's
\* impact data." if and only if the cause was an impact payload that is missing
\* or fails validation (both fetches resolved); for every transport failure of a
\* fetch it is "An error occurred while fetching data. Please try again.".
\* The step is the one that takes invocation s from the Promise.all to the catch
\* block, as s2.
C8_MessageTellsTheCause ==
  [][\A s \in BagToSet(submits), s2 \in BagToSet(submits') :
       (s.pc = "all" /\ s2.pc = "catch" /\ submits' = Replace(s, s2)) =>
         LET transport == s2.imp = "err" \/ s2.rec.stage = "err"
             payload == /\ s2.imp = "ok"
                        /\ s2.rec.stage = "ok"
                        /\ (s2.impData = NullObj \/ ~validateImpactData(s2.impData))
         IN /\ error' = "Unable to analyze this food item's impact data." <=> payload
            /\ transport =>
                 error' = "An error occurred while fetching data. Please try again."]_vars

\* a submit in its catch block over a payload whose water is a string, with the
\* shape-specific message on display
C8_Witness ==
  /\ error = ShapeMsg
  /\ \E s \in BagToSet(submits) :
       s.pc = "catch" /\ s.imp = "ok" /\ s.rec.stage = "ok" /\ s.impData = FlatBadWater

\* C9: a submit whose two fetches succeed, with an impact payload that passes
\* validation, completes with the normalized payload stored, the response's
\* alternatives (or none, when the response carries none) stored, the error
\* message empty and loading false.
C9_BothSucceedIsSuccess ==
  [][\A s \in BagToSet(submits) :
       /\ \A r \in Responses(RecBodies, {}, NullBody) :
            ( /\ RecResponse(s, r)
              /\ s.pc = "all"
              /\ s.imp = "ok"
              /\ validateImpactData(s.impData) )
            => /\ impactData' = normalizeImpactData(s.impData)
               /\ recommendations' = Alternatives(r.data)
               /\ error' = ""
               /\ isLoading' = FALSE
       /\ \A r \in Responses(ImpactPayloads, {}, NullObj) :
            ( /\ ImpactResponse(s, r)
              /\ s.pc = "all"
              /\ s.rec.stage = "ok"
              /\ validateImpactData(r.data) )
            => /\ impactData' = normalizeImpactData(r.data)
               /\ recommendations' = Alternatives(s.rec.data)
               /\ error' = ""
               /\ isLoading' = FALSE]_vars

\* the initial values of what the session shows
NothingShown ==
  /\ query = Str0
  /\ impactData = NullObj
  /\ recommendations = <<>>
  /\ error = ""
  /\ suggestions = <<>>

\* the initial values of the session
Cleared == NothingShown /\ ~showSuggestions

\* a step of the server: a response is consumed, and no request is started by
\* the user
ServerStep ==
  /\ searches' # searches \/ submits' # submits
  /\ InFlight' <= InFlight

\* C10: Clear resets the session to its initial values and issues no request;
\* after Clear, with no further user action, the session keeps those values.
\* (Under SpecRace the query is empty again only by Clear, and every user action
\* on the cleared session changes the query or the error: a cleared session
\* with a request outstanding is one that Clear left and no user has touched.
\* The showSuggestions flag over an empty list shows nothing: it is not held
\* against the second half.)
C10_ClearIsFinal ==
  [][/\ HandleClearSearch =>
          (Cleared' /\ InFlight' = InFlight /\ submits' = submits /\ searches' = searches)
     /\ (Cleared /\ ServerStep) => NothingShown']_vars

----------------------------------------------------------------------------
(* Selecting a suggestion or a recommendation.                              *)

\* the query set to value, then the manual submit (handleSearch) of it
ManualSubmit(value) ==
  /\ query' = value
  /\ handleSearchWithValue(value, suggestions, showSuggestions)
  /\ UNCHANGED <<storesFoodInfo, searches, apiCall>>

\* C11, as stated: for every suggestion s and every session state, selecting s
\* makes the same transition and the same requests as setting the query to s
\* and submitting s by hand.
C11_SelectIsManualSubmit ==
  [][\A i \in 1..Len(suggestions) :
       SelectSuggestion(i) => ManualSubmit(suggestions[i])]_vars

\* C11, amended: for every suggestion s that does not trim to nothing, selecting
\* s makes the same transition and the same requests as setting the query to s
\* and submitting s by hand; for an s that trims to nothing it differs from the
\* manual submit in one thing, the suggestion list, which it empties and hides.
C11_SelectIsManualSubmitUnlessBlank ==
  [][\A i \in 1..Len(suggestions) :
       SelectSuggestion(i) =>
         LET s == suggestions[i]
         IN IF Trim(s) # <<>>
            THEN ManualSubmit(s)
            ELSE /\ query' = s
                 /\ error' = EmptyQueryMsg
                 /\ suggestions' = <<>>
                 /\ showSuggestions' = FALSE
                 /\ UNCHANGED <<impactData, recommendations, foodInfo, isLoading,
                                submits, searches>>]_vars

\* the suggestion "ab" was selected: its analysis is in flight, the list is gone
C11_Witness ==
  /\ query = StrAB
  /\ isLoading
  /\ suggestions = <<>>
  /\ ~showSuggestions
  /\ \E s \in BagToSet(submits) : s.pc = "all" /\ s.value = StrAB

\* this step starts a submit for value n: one more invocation, awaiting its
\* Promise.all, with the impact request and the first recommendations request
\* for n outstanding
StartsSubmitFor(n) ==
  /\ isLoading'
  /\ InFlight' = InFlight + 2
  /\ \E s \in BagToSet(submits') :
       /\ s.value = n
       /\ s.pc = "all"
       /\ s.imp = "pending"
       /\ s.rec = getRecommendations(TRUE)
       /\ submits' = submits (+) One(s)

\* C12, as stated: selecting a recommended alternative named n sets the query
\* to n and at once starts a submit whose impact and recommendations requests
\* are for n.
C12_RecommendationSelectSubmits ==
  [][\A i \in 1..Len(recommendations) :
       HandleSelectRecommendation(i) =>
         (query' = recommendations[i].name /\ StartsSubmitFor(recommendations[i].name))]_vars

\* C12, amended: selecting a recommended alternative named n sets the query to
\* n; when n does not trim to nothing the same step starts a submit whose impact
\* and recommendations requests are for n; when it does, no request is issued
\* and the empty-query message is set.
C12_RecommendationSelectSubmitsUnlessBlank ==
  [][\A i \in 1..Len(recommendations) :
       HandleSelectRecommendation(i) =>
         LET n == recommendations[i].name
         IN /\ query' = n
            /\ IF Trim(n) # <<>>
               THEN StartsSubmitFor(n)
               ELSE /\ error' = EmptyQueryMsg
                    /\ submits' = submits
                    /\ searches' = searches
                    /\ isLoading' = isLoading]_vars

\* the alternative "ab" was selected from the list on display: the list is still
\* there and the analysis of "ab" is in flight
C12_Witness ==
  /\ ~storesFoodInfo
  /\ recommendations # <<>>
  /\ query = StrAB
  /\ isLoading
  /\ \E s \in BagToSet(submits) :
       s.value = StrAB /\ s.pc = "all" /\ s.imp = "pending" /\ s.rec.stage = "first"

----------------------------------------------------------------------------
(* Responses against later user actions.                                    *)

\* C13: a response never overwrites newer session state written by a strictly
\* later user action: the response to a request issued before that action does
\* not change the fields the action wrote.
\* (Under SpecRace every request is issued with the query "ab" in the input, by
\* a keystroke or a submit, and the query is empty again only by Clear, which
\* writes query, impact, alternatives, error and suggestions.  With an empty
\* query every outstanding request is older than that Clear, and whatever was
\* written since is newer still.)
C13_ResponsesRespectLaterActions ==
  [][(query = Str0 /\ ServerStep) =>
       UNCHANGED <<query, impactData, recommendations, error, suggestions>>]_vars

----------------------------------------------------------------------------
(* Progress.  Every request is answered in the end: by the server, or by    *)
(* the timeout of the HTTP client, which rejects it.                        *)

\* the outcomes of a fetch that the handlers tell apart: a body that passes, a
\* body that fails validation, a failure that is retried, one that is not
LivePayloads == {FlatBeef, FlatBadWater}
LiveFailures == {HttpTimeout, HttpNotFound}

\* some outstanding request is answered
Responding ==
  \/ \E s \in BagToSet(searches), r \in Responses({SuggestBody}, LiveFailures, NoSearchBody) :
       SearchResponse(s, r)
  \/ \E s \in BagToSet(submits), r \in Responses(LivePayloads, LiveFailures, NullObj) :
       ImpactResponse(s, r)
  \/ \E s \in BagToSet(submits), r \in Responses({BodyAlts}, LiveFailures, NullBody) :
       RecResponse(s, r)
  \/ \E s \in BagToSet(submits), r \in Responses({BodyAlts}, LiveFailures, NullBody) :
       Rec2Response(s, r)

NextLive ==
  \/ HandleSearch /\ InFlight' <= MaxInFlight
  \/ \E i \in 1..2 : SelectSuggestion(i) /\ InFlight' <= MaxInFlight
  \/ \E i \in 1..2 : HandleSelectRecommendation(i) /\ InFlight' <= MaxInFlight
  \/ HandleInputChange(StrAB) /\ InFlight' <= MaxInFlight
  \/ HandleClearSearch
  \/ HandleClickOutside
  \/ Responding

SpecLive == Init /\ [][NextLive]_vars /\ WF_vars(Responding)

\* C14: if every issued request is answered in the end, every submit of a
\* non-empty query leaves the loading state whatever the outcomes of its
\* fetches, and whenever loading is left the input and the Analyze button are
\* enabled, so that a new submit can be started.
C14_SubmitEndsAndUnblocks ==
  /\ isLoading ~> ~isLoading
  /\ [](~isLoading => (ENABLED HandleSearch /\ ENABLED HandleInputChange(StrAB)))

\* a submit has ended in failure: the generic message, no impact, not loading
C14_Witness ==
  /\ ~isLoading
  /\ error = GenericMsg
  /\ impactData = NullObj
  /\ submits = EmptyBag
  /\ query = StrAB

----------------------------------------------------------------------------
(* Which submit an error message belongs to.  The user types "ab"; what the *)
(* server suggests and recommends is another food, "b".                     *)

StrB == <<"b">>
\* ["b"]
OtherSuggestion == [isArray |-> TRUE, items |-> <<StrB>>]
\* {alternatives: [{name: "b"}]}
OtherAlternative ==
  [isNull |-> FALSE,
   alternatives |-> [present |-> TRUE, items |-> <<[name |-> StrB]>>],
   food_info |-> NoInfo]

NextOrder ==
  \/ HandleSearch /\ InFlight' <= MaxRaceInFlight
  \/ SelectSuggestion(1) /\ InFlight' <= MaxRaceInFlight
  \/ HandleSelectRecommendation(1) /\ InFlight' <= MaxRaceInFlight
  \/ HandleInputChange(StrAB) /\ InFlight' <= MaxRaceInFlight
  \/ HandleClearSearch
  \/ HandleClickOutside
  \/ \E s \in BagToSet(searches), r \in Responses({OtherSuggestion}, {}, NoSearchBody) :
       SearchResponse(s, r)
  \/ \E s \in BagToSet(submits),
        r \in Responses({FlatBeef, FlatBadWater}, {HttpNotFound}, NullObj) :
       ImpactResponse(s, r)
  \/ \E s \in BagToSet(submits), r \in Responses({OtherAlternative}, {HttpNotFound}, NullBody) :
       RecResponse(s, r)
  \/ \E s \in BagToSet(submits), r \in Responses({OtherAlternative}, {HttpNotFound}, NullBody) :
       Rec2Response(s, r)

SpecOrder == Init /\ [][NextOrder]_vars

\* C15: the error message on display is a single string, and when a submit
\* sets it, that submit is the most recently started one.
\* (Under SpecOrder the query is "b" only by the selection of a suggestion or
\* of an alternative, which starts a submit for "b", and a submit for "ab" is
\* started only by Analyze with "ab" in the input: when a submit for "ab"
\* reaches its catch block with "b" in the input, a submit was started after
\* it.)
C15_ErrorIsOfLatestSubmit ==
  /\ [](error \in {"", EmptyQueryMsg, ShapeMsg, GenericMsg})
  /\ [][\A s \in BagToSet(submits), s2 \in BagToSet(submits') :
          ( /\ s.pc = "all"
            /\ s2.pc = "catch"
            /\ submits' = Replace(s, s2)
            /\ error' # ""
            /\ query = StrB )
          => s.value = StrB]_vars

----------------------------------------------------------------------------
(* The impact payload.  One submit at a time; the server answers the impact *)
(* request with a flat or a nested payload, complete or with one field      *)
(* missing, mistyped or zero, with or without an environmental score.       *)

Metrics == {"carbon", "water", "energy", "waste", "deforestation"}

\* what a field holds in place of its value: nothing, a string, zero
OtherValues == {Undefined, Text(3), Num(0)}

FlatPayloads ==
  {[[FlatBeef EXCEPT ![f] = v] EXCEPT !.environmental_score = e] :
     f \in Metrics \cup {"food"},
     v \in OtherValues \cup {FlatBeef.carbon},
     e \in {Undefined, Num(0), Num(8)}}

\* the environmental score of a nested payload: under score, under
\* environmental_score, or absent
NestedPayloads ==
  {[[[NestedBeef EXCEPT !.breakdown[f] = v] EXCEPT !.food = n]
      EXCEPT !.score = e[1], !.environmental_score = e[2]] :
     f \in Metrics,
     v \in OtherValues \cup {NestedBeef.breakdown.carbon},
     n \in {Text(1), Undefined},
     e \in {<<Num(8), Undefined>>, <<Num(0), Undefined>>, <<Undefined, Num(8)>>,
            <<Undefined, Undefined>>}}

PayloadSpace == FlatPayloads \cup NestedPayloads \cup {NullObj}

NextPayload ==
  \/ HandleInputChange(StrAB) /\ InFlight' <= MaxInFlight
  \/ HandleSearch /\ InFlight' <= MaxInFlight
  \/ HandleClearSearch
  \/ \E s \in BagToSet(searches), r \in Responses({OneSuggestion}, {}, NoSearchBody) :
       SearchResponse(s, r)
  \/ \E s \in BagToSet(submits), r \in Responses(PayloadSpace, {HttpNotFound}, NullObj) :
       ImpactResponse(s, r)
  \/ \E s \in BagToSet(submits), r \in Responses({BodyOne}, {HttpNotFound}, NullBody) :
       RecResponse(s, r)
  \/ \E s \in BagToSet(submits), r \in Responses({BodyOne}, {HttpNotFound}, NullBody) :
       Rec2Response(s, r)

SpecPayload == Init /\ [][NextPayload]_vars

\* the step on which both fetches of invocation s have succeeded, with the
\* impact payload d: the second of its two responses arrives
BothSucceedWith(s, d) ==
  /\ s.pc = "all"
  /\ \/ /\ s.rec.stage = "ok"
        /\ \E r \in Responses({d}, {}, NullObj) : ImpactResponse(s, r)
     \/ /\ s.imp = "ok"
        /\ s.impData = d
        /\ \E r \in Responses({BodyOne}, {}, NullBody) : RecResponse(s, r)

\* that step, when the handler stores the payload and returns
StoresPayload(s, d) == BothSucceedWith(s, d) /\ submits' = submits (-) One(s)

\* the flat payload that carries the food, the five metrics, the impact level
\* and the environmental score of the nested payload d
Flatten(d) ==
  [EmptyObj EXCEPT
     !.food = d.food,
     !.carbon = d.breakdown.carbon,
     !.water = d.breakdown.water,
     !.energy = d.breakdown.energy,
     !.waste = d.breakdown.waste,
     !.deforestation = d.breakdown.deforestation,
     !.impact = d.impact,
     !.environmental_score =
        IF d.score # Undefined THEN d.score ELSE d.environmental_score]

\* C16: a nested payload is stored as the same record, field by field, as the
\* flat payload with the same food, metrics, impact level and environmental
\* score is.
C16_ShapesNormalizeAlike ==
  [][\A s \in BagToSet(submits), d \in NestedPayloads :
       StoresPayload(s, d) => impactData' = normalizeImpactData(Flatten(d))]_vars

\* the payload d, of either shape, lacks one of the five metrics or holds
\* something that is not a number in its place
LacksNumeric(d) ==
  /\ d.kind = "object"
  /\ \E f \in Metrics :
       TypeOf(IF d.breakdown.present THEN d.breakdown[f] ELSE d[f]) # "number"

\* the step on which the Promise.all of invocation s settles with the payload d
\* received: the impact response arrives last, or the recommendations call
\* settles last
SettlesWith(s, d) ==
  /\ s.pc = "all"
  /\ \/ /\ s.rec.stage = "ok"
        /\ \E r \in Responses({d}, {}, NullObj) : ImpactResponse(s, r)
     \/ /\ s.imp = "ok"
        /\ s.impData = d
        /\ \E r \in Responses({BodyOne, OtherAlternative}, {HttpNotFound}, NullBody) :
             RecResponse(s, r) /\ ~Pending(RecCallStep(s.rec, r))

\* C17: a payload that lacks one of the five metrics, or holds a non-number in
\* its place, is not stored: when the submit's fetches have settled the impact
\* is null, an error message is set and the handler runs on in its catch block;
\* and when the handler returns, the impact is null, an error message is on
\* display and loading is over.
C17_InvalidPayloadIsFailure ==
  [][\A s \in BagToSet(submits) :
       /\ \A d \in PayloadSpace :
            (SettlesWith(s, d) /\ LacksNumeric(d))
            => /\ impactData' = NullObj
               /\ error' # ""
               /\ \E s2 \in BagToSet(submits') :
                    s2.pc = "catch" /\ submits' = Replace(s, s2)
       /\ \A r \in Responses({BodyOne, OtherAlternative}, {HttpNotFound}, NullBody) :
            ( /\ Rec2Response(s, r)
              /\ ~Pending(RecCallStep(s.rec2, r))
              /\ s.imp = "ok"
              /\ LacksNumeric(s.impData) )
            => /\ impactData' = NullObj
               /\ error' # ""
               /\ ~isLoading']_vars

\* C18: a flat payload that passes validation is stored with its five metrics
\* as the breakdown, its impact level, and as score its environmental_score
\* when it has one (0 included), 5 when it has none.
C18_FlatPayloadIsCopied ==
  [][\A s \in BagToSet(submits), d \in FlatPayloads :
       StoresPayload(s, d)
       => /\ impactData'.breakdown =
               [present |-> TRUE, carbon |-> d.carbon, water |-> d.water,
                energy |-> d.energy, waste |-> d.waste,
                deforestation |-> d.deforestation]
          /\ impactData'.impact = d.impact
          /\ impactData'.score = IF d.environmental_score = Undefined
                                 THEN Num(5) ELSE d.environmental_score]_vars

\* the payload d, of either shape, has its food and four metrics, and no
\* deforestation
OnlyDeforestationMissing(d) ==
  /\ d.kind = "object"
  /\ TypeOf(d.food) = "string"
  /\ LET b == IF d.breakdown.present THEN d.breakdown ELSE d
     IN /\ b.deforestation = Undefined
        /\ \A f \in Metrics \ {"deforestation"} : TypeOf(b[f]) = "number"

\* C19: a payload without deforestation, otherwise valid, is accepted: when
\* both fetches have succeeded it is stored, with deforestation 0 and its four
\* other metrics, and no error message is set.
C19_MissingDeforestationIsZero ==
  [][\A s \in BagToSet(submits), d \in PayloadSpace :
       (BothSucceedWith(s, d) /\ OnlyDeforestationMissing(d))
       => LET b == IF d.breakdown.present THEN d.breakdown ELSE d
          IN /\ impactData'.breakdown =
                  [present |-> TRUE, carbon |-> b.carbon, water |-> b.water,
                   energy |-> b.energy, waste |-> b.waste, deforestation |-> Num(0)]
             /\ error' = error
             /\ submits' = submits (-) One(s)]_vars

\* C20: the stored impact is null, or a record with a breakdown whose carbon,
\* water, energy, waste and deforestation are all numbers.
C20_StoredImpactIsNested ==
  \/ impactData = NullObj
  \/ /\ impactData.kind = "object"
     /\ impactData.breakdown.present
     /\ \A f \in Metrics : TypeOf(impactData.breakdown[f]) = "number"

\* an impact on display that was built from a flat payload whose carbon is 0
C20_Witness ==
  /\ ~isLoading
  /\ impactData.breakdown.present
  /\ impactData.breakdown.carbon = Num(0)
  /\ impactData.ingredients = EmptyArray

----------------------------------------------------------------------------
(* The start of a submit.                                                   *)

\* a submit of a query that does not trim to nothing: Analyze or Enter, a click
\* on a suggestion, a click on an alternative
NonEmptySubmit ==
  /\ \/ HandleSearch
     \/ \E i \in 1..Len(suggestions) : SelectSuggestion(i)
     \/ \E i \in 1..Len(recommendations) : HandleSelectRecommendation(i)
  /\ ~BlankSubmit

\* C21: the step that begins a submit of a non-empty query leaves the
\* suggestions empty and hidden, loading true, and the impact, the
\* alternatives and the error message of before cleared.
C21_SubmitStartClears ==
  [][NonEmptySubmit =>
       /\ suggestions' = <<>>
       /\ ~showSuggestions'
       /\ isLoading'
       /\ impactData' = NullObj
       /\ recommendations' = <<>>
       /\ error' = ""]_vars

\* C22: the step that begins a submit of a non-empty query issues the impact
\* request and the first recommendations request together; while one of the
\* two calls is unsettled and none has failed, the responses of the submit
\* change nothing on display; the handler goes on to its catch block only when
\* a call has failed or both have resolved, and stores a result only when both
\* have resolved.
C22_ParallelDispatchThenJoin ==
  [][/\ NonEmptySubmit =>
          /\ InFlight' = InFlight + 2
          /\ \E s \in BagToSet(submits') :
               /\ submits' = submits (+) One(s)
               /\ s.pc = "all"
               /\ s.imp = "pending"
               /\ s.rec.stage = "first"
               /\ Len(s.rec.sent) = 1
     /\ \A s \in BagToSet(submits) :
          /\ \A s2 \in BagToSet(submits') :
               (s.pc = "all" /\ s2 # s /\ submits' = Replace(s, s2)) =>
                 LET failed == s2.imp = "err" \/ s2.rec.stage = "err"
                     resolved == s2.imp = "ok" /\ s2.rec.stage = "ok"
                 IN /\ s2.pc = "all" => (UNCHANGED ui /\ ~failed /\ ~resolved)
                    /\ s2.pc = "catch" => (failed \/ resolved)
          /\ \A r \in Responses(ImpactPayloads, HttpFailures, NullObj) :
               (s.pc = "all" /\ ImpactResponse(s, r) /\ submits' = submits (-) One(s))
               => (r.o = HttpOk /\ s.rec.stage = "ok")
          /\ \A r \in Responses(RecBodies, HttpFailures, NullBody) :
               (s.pc = "all" /\ RecResponse(s, r) /\ submits' = submits (-) One(s))
               => (r.o = HttpOk /\ s.imp = "ok")]_vars

\* the impact response of a submit has arrived and is held back: the
\* recommendations call has timed out once and its fallback is outstanding
C22_Witness ==
  /\ isLoading
  /\ impactData = NullObj
  /\ error = ""
  /\ \E s \in BagToSet(submits) :
       s.pc = "all" /\ s.imp = "ok" /\ s.impData = FlatBeef /\ s.rec.stage = "fallback"

----------------------------------------------------------------------------
(* Typing.  The user types values with and without blanks around them; the  *)
(* server answers a search with one of two lists, or not at all.            *)

\* "a", " a", "a ", "  "
TypedStrs == Strs \cup {<<"a">>, <<Blank, "a">>, <<"a", Blank>>, <<Blank, Blank>>}

NextTyping ==
  \/ \E value \in TypedStrs : HandleInputChange(value) /\ InFlight' <= MaxInFlight
  \/ HandleSearch /\ InFlight' <= MaxInFlight
  \/ SelectSuggestion(1) /\ InFlight' <= MaxInFlight
  \/ HandleClearSearch
  \/ HandleClickOutside
  \/ \E s \in BagToSet(searches),
        r \in Responses({OneSuggestion, OtherSuggestion}, {HttpNotFound}, NoSearchBody) :
       SearchResponse(s, r)
  \/ \E s \in BagToSet(submits), r \in Responses({FlatBeef}, {HttpNotFound}, NullObj) :
       ImpactResponse(s, r)
  \/ \E s \in BagToSet(submits), r \in Responses({BodyOne}, {HttpNotFound}, NullBody) :
       RecResponse(s, r)
  \/ \E s \in BagToSet(submits), r \in Responses({BodyOne}, {HttpNotFound}, NullBody) :
       Rec2Response(s, r)

SpecTyping == Init /\ [][NextTyping]_vars

\* C23: an input change issues one suggestions request, and leaves the
\* suggestions as they are, if and only if the new value trimmed is longer than
\* one character and the session is not loading; otherwise it empties and
\* hides the suggestions and issues no request.
C23_SearchOnlyForLongerValues ==
  [][\A value \in TypedStrs :
       HandleInputChange(value) =>
         IF Len(Trim(value)) > 1 /\ ~isLoading
         THEN /\ searches' = searches (+) One([q |-> value])
              /\ InFlight' = InFlight + 1
         ELSE /\ suggestions' = <<>>
              /\ ~showSuggestions'
              /\ searches' = searches
              /\ InFlight' = InFlight]_vars

\* " a" typed into the input beside the result of an analysis: no suggestion
\* is listed and no request is outstanding
C23_Witness ==
  /\ query = <<Blank, "a">>
  /\ suggestions = <<>>
  /\ ~showSuggestions
  /\ searches = EmptyBag
  /\ impactData # NullObj

\* C24: whichever outstanding suggestions request a response answers, and
\* whatever is listed, the response's list (none, for a failed request) becomes
\* the suggestion list, and the list is shown.
C24_LastResponseWins ==
  [][\A s \in BagToSet(searches),
        r \in Responses({OneSuggestion, OtherSuggestion}, {HttpNotFound}, NoSearchBody) :
       SearchResponse(s, r) =>
         /\ suggestions' = IF r.o = HttpOk THEN r.data.items ELSE <<>>
         /\ showSuggestions']_vars

\* of two outstanding requests one has been answered with ["b"], over the list
\* ["ab"] of an earlier answer or none; the other is still outstanding
C24_Witness ==
  /\ BagCardinality(searches) = 1
  /\ suggestions = <<StrB>>
  /\ showSuggestions
  /\ ~isLoading

----------------------------------------------------------------------------
(* Submits and the loading flag.                                            *)

\* the invocation s of handleSearchWithValue has not returned
Running(s) == s.pc \in {"all", "catch"}

\* C25: at most one invocation of handleSearchWithValue is running, and while
\* loading is true no user action begins a submit.
C25_OneAnalysisAtATime ==
  /\ [](\A s, t \in BagToSet(submits) :
          (Running(s) /\ Running(t)) => (s = t /\ CopiesIn(s, submits) = 1))
  /\ [][isLoading => ~NonEmptySubmit]_vars

\* C26: loading is true exactly when an invocation of handleSearchWithValue is
\* running, and while loading is false no request of a submit is outstanding.
C26_LoadingMeansRunning ==
  /\ isLoading <=> \E s \in BagToSet(submits) : Running(s)
  /\ ~isLoading => InFlight = BagCardinality(searches)

\* C27: while loading is true no suggestion is listed and the list is hidden,
\* and a suggestions response handled while loading is true leaves it so.
C27_NoSuggestionsWhileLoading ==
  /\ [](isLoading => (suggestions = <<>> /\ ~showSuggestions))
  /\ [][(isLoading /\ searches' # searches) =>
          (suggestions' = <<>> /\ ~showSuggestions')]_vars

\* C28: a running submit has issued one recommendations request with
\* use_ai=true and at most one more, with use_ai=false; two at most.  (Its
\* impact request is the one issued at its start: no step issues another.)
C28_AtMostTwoRecommendationRequests ==
  /\ [](\A s \in BagToSet(submits) :
          Running(s) =>
            LET sent == s.rec.sent \o s.rec2.sent
            IN /\ Len(sent) \in 1..2
               /\ sent[1] = TRUE
               /\ Len(sent) = 2 => sent[2] = FALSE)
  /\ [][\A s \in BagToSet(submits), s2 \in BagToSet(submits') :
          (Running(s) /\ submits' = Replace(s, s2)) =>
            ~(s.imp # "pending" /\ s2.imp = "pending")]_vars

\* C29: whenever the shape message or the generic message is on display, the
\* stored impact is null.
C29_ErrorMeansNoImpact ==
  error \in {ShapeMsg, GenericMsg} => impactData = NullObj

----------------------------------------------------------------------------
(* Food info.  The user types "ab", the server suggests "b"; the             *)
(* recommendations carry the food info of "ab".                             *)

NextInfo ==
  \/ HandleSearch /\ InFlight' <= MaxRaceInFlight
  \/ SelectSuggestion(1) /\ InFlight' <= MaxRaceInFlight
  \/ HandleSelectRecommendation(1) /\ InFlight' <= MaxRaceInFlight
  \/ HandleInputChange(StrAB) /\ InFlight' <= MaxRaceInFlight
  \/ HandleClearSearch
  \/ HandleClickOutside
  \/ \E s \in BagToSet(searches), r \in Responses({OtherSuggestion}, {}, NoSearchBody) :
       SearchResponse(s, r)
  \/ \E s \in BagToSet(submits), r \in Responses({FlatBeef}, {HttpNotFound}, NullObj) :
       ImpactResponse(s, r)
  \/ \E s \in BagToSet(submits), r \in Responses({BodyInfo}, {HttpNotFound}, NullBody) :
       RecResponse(s, r)
  \/ \E s \in BagToSet(submits), r \in Responses({BodyInfo}, {HttpNotFound}, NullBody) :
       Rec2Response(s, r)

SpecInfo == Init /\ [][NextInfo]_vars

\* C30: in the analyzer that stores food info, the start of a submit of a
\* non-empty query and Clear reset foodInfo; a recommendations result that
\* the handler reads and that carries food_info is stored, and its name, if
\* any, becomes the query; and no response of a submit that is not the most
\* recently started one changes foodInfo or the query.
\* (Under SpecInfo the query is "b" only by the selection of the suggestion
\* "b", which starts a submit, and a submit for "ab" starts with "ab" in the
\* input: with "b" in the input, a submit for "ab" is not the latest.)
C30_FoodInfoOfLatestSubmit ==
  [][storesFoodInfo =>
       /\ (NonEmptySubmit \/ HandleClearSearch) => foodInfo' = NoInfo
       /\ \A s \in BagToSet(submits), r \in Responses({BodyInfo}, {}, NullBody) :
            ( \/ Rec2Response(s, r)
              \/ RecResponse(s, r) /\ s.pc = "all" /\ submits' = submits (-) One(s) )
            => /\ foodInfo' = r.data.food_info
               /\ query' = r.data.food_info.name
       /\ \A s \in BagToSet(submits) :
            ( /\ s.value = StrAB
              /\ query = StrB
              /\ \/ \E r \in Responses({FlatBeef}, {HttpNotFound}, NullObj) :
                      ImpactResponse(s, r)
                 \/ \E r \in Responses({BodyInfo}, {HttpNotFound}, NullBody) :
                      RecResponse(s, r) \/ Rec2Response(s, r) )
            => UNCHANGED <<foodInfo, query>>]_vars

====
